---- MODULE Spec2Model ----
(***************************************************************************)
(* Error contexts and the panic handler of src/common/errors.rs.           *)
(*                                                                         *)
(* An ErrorContext is a fixed array of MAX_THREAD_CALL_STACK ContextType   *)
(* values.  add_call writes into the first Empty slot and publishes the    *)
(* context into the calling thread's OPENCALLS thread-local.  handle_panic *)
(* reads OPENCALLS on the panicking thread, composes a report and either   *)
(* prints it and exits (thread named "main") or sends it on the            *)
(* supervisor channel and unwraps the result.                              *)
(***************************************************************************)
EXTENDS Integers, Sequences, FiniteSets, TLC

\* ------------------------------------------------------------------------
\* Program constants and bounds of the model
\* ------------------------------------------------------------------------
MAX_THREAD_CALL_STACK == 6

\* new() and add_call calls made in one run of the recorder specification
MaxCalls == 8
\* new() and add_call calls made, by all threads together, in one run of Spec
MaxRecords == 2
\* threads that panic in one run of Spec
MaxPanics == 2
\* different instructions converted in one run of the converter specification
MaxConversions == 2

\* ------------------------------------------------------------------------
\* ContextType (the call-site tags)
\* ------------------------------------------------------------------------
Screen(c) == [kind |-> "Screen", sub |-> c]
Pty(c) == [kind |-> "Pty", sub |-> c]
Plugin(c) == [kind |-> "Plugin", sub |-> c]
App(c) == [kind |-> "App", sub |-> c]
IPCServer == [kind |-> "IPCServer", sub |-> ""]
StdinHandler == [kind |-> "StdinHandler", sub |-> ""]
AsyncTask == [kind |-> "AsyncTask", sub |-> ""]
Empty == [kind |-> "Empty", sub |-> ""]

\* the tags the recorder of SpecCtx records (Empty is a ContextType too)
NonEmptyTags == {Screen("Render"), Pty("SpawnTerminal"), IPCServer}
Tags == NonEmptyTags \cup {Empty}
\* the tags the threads of Spec record
ThreadTags == {Screen("Render"), Pty("SpawnTerminal")}

\* ANSI colour sequences used by the formatters
Reset == "ESC[0;0m"
Red == "ESC[0;31m"
Purple == "ESC[1;35m"
Green == "ESC[0;32m"

\* impl Display for ContextType: the pieces written by each match arm
DisplayContextType(c) ==
  CASE c.kind = "Screen" -> <<Purple, "screen_thread: ", Green, c.sub>>
    [] c.kind = "Pty" -> <<Purple, "pty_thread: ", Green, c.sub>>
    [] c.kind = "Plugin" -> <<Purple, "plugin_thread: ", Green, c.sub>>
    [] c.kind = "App" -> <<Purple, "main_thread: ", Green, c.sub>>
    [] c.kind = "IPCServer" -> <<Purple, "ipc_server: ", Green, "AcceptInput">>
    [] c.kind = "StdinHandler" -> <<Purple, "stdin_handler_thread: ", Green, "AcceptInput">>
    [] c.kind = "AsyncTask" -> <<Purple, "stream_terminal_bytes: ", Green, "AsyncTask">>
    [] c.kind = "Empty" -> <<"">>

\* ------------------------------------------------------------------------
\* ErrorContext
\* ------------------------------------------------------------------------
\* ErrorContext::new
new == [calls |-> [i \in 1..MAX_THREAD_CALL_STACK |-> Empty]]

\* the loop of add_call from slot i on: write into the first Empty slot, break
RECURSIVE AddCallFrom(_, _, _)
AddCallFrom(calls, i, call) ==
  IF i > Len(calls) THEN calls
  ELSE IF calls[i] = Empty THEN [calls EXCEPT ![i] = call]
  ELSE AddCallFrom(calls, i + 1, call)

\* add_call evicting the oldest call once every slot is taken
add_call_KeepMostRecent(self, call) ==
  IF \A i \in 1..Len(self.calls) : self.calls[i] # Empty
  THEN [calls |-> Tail(self.calls) \o <<call>>]
  ELSE [calls |-> AddCallFrom(self.calls, 1, call)]

\* add_call with the slots scanned from the last one
add_call_LastEmpty(self, call) ==
  LET empties == {i \in 1..Len(self.calls) : self.calls[i] = Empty}
  IN IF empties = {} THEN self
     ELSE [calls |-> [self.calls EXCEPT
                        ![CHOOSE i \in empties : \A j \in empties : j <= i] = call]]

\* add_call without the test for Empty: the first slot is written
add_call_Overwrite(self, call) == [calls |-> [self.calls EXCEPT ![1] = call]]

\* add_call taking Empty as the sign to start the trail afresh
add_call_EmptyClears(self, call) ==
  IF call = Empty THEN new ELSE [calls |-> AddCallFrom(self.calls, 1, call)]

\* the value of *self after the loop of add_call
add_call(self, call) == [calls |-> AddCallFrom(self.calls, 1, call)]

\* Publish as it would be were OPENCALLS one static shared by every thread
Publish_ProcessWide(opencalls, t, self) == [u \in DOMAIN opencalls |-> self]

\* OPENCALLS.with(|ctx| *ctx.borrow_mut() = *self) run on thread t
Publish(opencalls, t, self) == [opencalls EXCEPT ![t] = self]

\* the loop of fmt from slot i on: one numbered line per slot, break at Empty
RECURSIVE FmtFrom(_, _)
FmtFrom(calls, i) ==
  IF i > Len(calls) THEN <<>>
  ELSE IF calls[i] = Empty THEN <<>>
  ELSE << <<Reset, ToString(i), ". ">> \o DisplayContextType(calls[i]) >>
         \o FmtFrom(calls, i + 1)

\* fmt numbering the lines with index instead of index + 1
RECURSIVE FmtFromZeroBased(_, _)
FmtFromZeroBased(calls, i) ==
  IF i > Len(calls) THEN <<>>
  ELSE IF calls[i] = Empty THEN <<>>
  ELSE << <<Reset, ToString(i - 1), ". ">> \o DisplayContextType(calls[i]) >>
         \o FmtFromZeroBased(calls, i + 1)

fmt_ZeroBased(self) ==
  << <<"Originating Thread(s):">> >> \o FmtFromZeroBased(self.calls, 1)

\* impl Display for ErrorContext: the lines written
fmt(self) == << <<"Originating Thread(s):">> >> \o FmtFrom(self.calls, 1)

\* ------------------------------------------------------------------------
\* Threads
\* ------------------------------------------------------------------------
Threads == {"t_main", "t_plugin", "t_anon"}

\* Option values: None is <<>>, Some(v) is <<v>>
None == <<>>
Some(v) == <<v>>

\* thread::current().name(): the main thread is named "main", a thread
\* spawned without a name has none
ThreadName(t) ==
  CASE t = "t_main" -> Some("main")
    [] t = "t_plugin" -> Some("plugin_thread")
    [] t = "t_anon" -> None

\* thread.name().unwrap_or("unnamed")
NameOrUnnamed(name) == IF name = None THEN "unnamed" ELSE name[1]

\* what a panic carries: the message downcast from the payload, the location
Messages == {None, Some("boom")}
Locations == {None, Some([file |-> "x.src", line |-> 42])}
\* what Backtrace::new() captures
Backtraces == {"<backtrace>"}

\* ------------------------------------------------------------------------
\* Instructions and the conversions into their contexts
\* ------------------------------------------------------------------------
\* what an instruction variant may carry; the converters never look at it
Payloads == {0, 1}

\* ScreenContext: the sub-tags of ContextType::Screen
ScreenContext ==
  {"HandlePtyEvent", "Render", "NewPane", "HorizontalSplit",
   "VerticalSplit", "WriteCharacter", "ResizeLeft", "ResizeRight",
   "ResizeDown", "ResizeUp", "MoveFocus", "MoveFocusLeft", "MoveFocusDown",
   "MoveFocusUp", "MoveFocusRight", "Quit", "ScrollUp", "ScrollDown",
   "ClearScroll", "CloseFocusedPane", "ToggleActiveTerminalFullscreen",
   "SetSelectable", "SetInvisibleBorders", "SetMaxHeight", "ClosePane",
   "ApplyLayout", "NewTab", "SwitchTabNext", "SwitchTabPrev", "CloseTab"}

\* the variants of ScreenInstruction that the converter matches without a
\* payload, and the ones it matches with one ((_) or (..))
ScreenInstructionUnit ==
  {"Render", "ResizeLeft", "ResizeRight", "ResizeDown", "ResizeUp",
   "MoveFocus", "MoveFocusLeft", "MoveFocusDown", "MoveFocusUp",
   "MoveFocusRight", "Quit", "ScrollUp", "ScrollDown", "ClearScroll",
   "CloseFocusedPane", "ToggleActiveTerminalFullscreen", "SwitchTabNext",
   "SwitchTabPrev", "CloseTab"}
ScreenInstructionData ==
  {"Pty", "NewPane", "HorizontalSplit", "VerticalSplit", "WriteCharacter",
   "SetSelectable", "SetInvisibleBorders", "SetMaxHeight", "ClosePane",
   "ApplyLayout", "NewTab"}
ScreenInstruction ==
  [variant : ScreenInstructionUnit, payload : {None}]
    \cup [variant : ScreenInstructionData, payload : {Some(p) : p \in Payloads}]

\* From<&ScreenInstruction> for ScreenContext: one arm per variant, no
\* wildcard arm
ScreenContextFrom(screen_instruction) ==
  CASE screen_instruction.variant = "Pty" -> "HandlePtyEvent"
    [] screen_instruction.variant = "Render" -> "Render"
    [] screen_instruction.variant = "NewPane" -> "NewPane"
    [] screen_instruction.variant = "HorizontalSplit" -> "HorizontalSplit"
    [] screen_instruction.variant = "VerticalSplit" -> "VerticalSplit"
    [] screen_instruction.variant = "WriteCharacter" -> "WriteCharacter"
    [] screen_instruction.variant = "ResizeLeft" -> "ResizeLeft"
    [] screen_instruction.variant = "ResizeRight" -> "ResizeRight"
    [] screen_instruction.variant = "ResizeDown" -> "ResizeDown"
    [] screen_instruction.variant = "ResizeUp" -> "ResizeUp"
    [] screen_instruction.variant = "MoveFocus" -> "MoveFocus"
    [] screen_instruction.variant = "MoveFocusLeft" -> "MoveFocusLeft"
    [] screen_instruction.variant = "MoveFocusDown" -> "MoveFocusDown"
    [] screen_instruction.variant = "MoveFocusUp" -> "MoveFocusUp"
    [] screen_instruction.variant = "MoveFocusRight" -> "MoveFocusRight"
    [] screen_instruction.variant = "Quit" -> "Quit"
    [] screen_instruction.variant = "ScrollUp" -> "ScrollUp"
    [] screen_instruction.variant = "ScrollDown" -> "ScrollDown"
    [] screen_instruction.variant = "ClearScroll" -> "ClearScroll"
    [] screen_instruction.variant = "CloseFocusedPane" -> "CloseFocusedPane"
    [] screen_instruction.variant = "ToggleActiveTerminalFullscreen" -> "ToggleActiveTerminalFullscreen"
    [] screen_instruction.variant = "SetSelectable" -> "SetSelectable"
    [] screen_instruction.variant = "SetInvisibleBorders" -> "SetInvisibleBorders"
    [] screen_instruction.variant = "SetMaxHeight" -> "SetMaxHeight"
    [] screen_instruction.variant = "ClosePane" -> "ClosePane"
    [] screen_instruction.variant = "ApplyLayout" -> "ApplyLayout"
    [] screen_instruction.variant = "NewTab" -> "NewTab"
    [] screen_instruction.variant = "SwitchTabNext" -> "SwitchTabNext"
    [] screen_instruction.variant = "SwitchTabPrev" -> "SwitchTabPrev"
    [] screen_instruction.variant = "CloseTab" -> "CloseTab"

\* PtyContext: the sub-tags of ContextType::Pty
PtyContext ==
  {"SpawnTerminal", "SpawnTerminalVertically", "SpawnTerminalHorizontally",
   "NewTab", "ClosePane", "CloseTab", "Quit"}

\* the variants of PtyInstruction that the converter matches without a
\* payload, and the ones it matches with one ((_) or (..))
PtyInstructionUnit ==
  {"NewTab", "Quit"}
PtyInstructionData ==
  {"SpawnTerminal", "SpawnTerminalVertically", "SpawnTerminalHorizontally",
   "ClosePane", "CloseTab"}
PtyInstruction ==
  [variant : PtyInstructionUnit, payload : {None}]
    \cup [variant : PtyInstructionData, payload : {Some(p) : p \in Payloads}]

\* From<&PtyInstruction> for PtyContext
PtyContextFrom(pty_instruction) ==
  CASE pty_instruction.variant = "SpawnTerminal" -> "SpawnTerminal"
    [] pty_instruction.variant = "SpawnTerminalVertically" -> "SpawnTerminalVertically"
    [] pty_instruction.variant = "SpawnTerminalHorizontally" -> "SpawnTerminalHorizontally"
    [] pty_instruction.variant = "ClosePane" -> "ClosePane"
    [] pty_instruction.variant = "CloseTab" -> "CloseTab"
    [] pty_instruction.variant = "NewTab" -> "NewTab"
    [] pty_instruction.variant = "Quit" -> "Quit"

\* PluginContext: the sub-tags of ContextType::Plugin
PluginContext ==
  {"Load", "Draw", "Input", "GlobalInput", "Unload", "Quit"}

\* the variants of PluginInstruction that the converter matches without a
\* payload, and the ones it matches with one ((_) or (..))
PluginInstructionUnit ==
  {"Quit"}
PluginInstructionData ==
  {"Load", "Draw", "Input", "GlobalInput", "Unload"}
PluginInstruction ==
  [variant : PluginInstructionUnit, payload : {None}]
    \cup [variant : PluginInstructionData, payload : {Some(p) : p \in Payloads}]

\* From<&PluginInstruction> for PluginContext
PluginContextFrom(plugin_instruction) ==
  CASE plugin_instruction.variant = "Load" -> "Load"
    [] plugin_instruction.variant = "Draw" -> "Draw"
    [] plugin_instruction.variant = "Input" -> "Input"
    [] plugin_instruction.variant = "GlobalInput" -> "GlobalInput"
    [] plugin_instruction.variant = "Unload" -> "Unload"
    [] plugin_instruction.variant = "Quit" -> "Quit"

\* AppContext: the sub-tags of ContextType::App
AppContext ==
  {"GetState", "SetState", "Exit", "Error"}

\* the variants of AppInstruction that the converter matches without a
\* payload, and the ones it matches with one ((_) or (..))
AppInstructionUnit ==
  {"Exit"}
AppInstructionData ==
  {"GetState", "SetState", "Error"}
AppInstruction ==
  [variant : AppInstructionUnit, payload : {None}]
    \cup [variant : AppInstructionData, payload : {Some(p) : p \in Payloads}]

\* the conversion with the SetState arm a copy of the GetState arm
AppContextFrom_CopiedArm(app_instruction) ==
  CASE app_instruction.variant = "GetState" -> "GetState"
    [] app_instruction.variant = "SetState" -> "GetState"
    [] app_instruction.variant = "Exit" -> "Exit"
    [] app_instruction.variant = "Error" -> "Error"

\* From<&AppInstruction> for AppContext
AppContextFrom(app_instruction) ==
  CASE app_instruction.variant = "GetState" -> "GetState"
    [] app_instruction.variant = "SetState" -> "SetState"
    [] app_instruction.variant = "Exit" -> "Exit"
    [] app_instruction.variant = "Error" -> "Error"

\* ------------------------------------------------------------------------
\* handle_panic: the report
\* ------------------------------------------------------------------------
\* ErrorLine with the (Some(location), None) arm a copy of the (None, None) arm
ErrorLine_LocationDropped(thread, location, msg) ==
  CASE location # None /\ msg # None ->
         <<Reset, "Error: ", Red, "thread '", thread, "' panicked at '", msg[1],
           "': ", location[1].file, ":", ToString(location[1].line)>>
    [] location # None /\ msg = None ->
         <<Reset, "Error: ", Red, "thread '", thread, "' panicked">>
    [] location = None /\ msg # None ->
         <<Reset, "Error: ", Red, "thread '", thread, "' panicked at '", msg[1], "'">>
    [] location = None /\ msg = None ->
         <<Reset, "Error: ", Red, "thread '", thread, "' panicked">>

\* the "Error:" line of each arm of match (info.location(), msg)
ErrorLine(thread, location, msg) ==
  CASE location # None /\ msg # None ->
         <<Reset, "Error: ", Red, "thread '", thread, "' panicked at '", msg[1],
           "': ", location[1].file, ":", ToString(location[1].line)>>
    [] location # None /\ msg = None ->
         <<Reset, "Error: ", Red, "thread '", thread, "' panicked: ",
           location[1].file, ":", ToString(location[1].line)>>
    [] location = None /\ msg # None ->
         <<Reset, "Error: ", Red, "thread '", thread, "' panicked at '", msg[1], "'">>
    [] location = None /\ msg = None ->
         <<Reset, "Error: ", Red, "thread '", thread, "' panicked">>

\* the report with the Error line put before the context
ComposeReport_ErrorFirst(err_ctx, thread, location, msg, backtrace) ==
  << ErrorLine(thread, location, msg) >> \o fmt(err_ctx) \o << <<>> >>
    \o << <<Reset, backtrace>> >>

\* the formatted string, as its lines: "{}\n" of err_ctx (whose last line
\* ends in a newline, hence the empty line), the Error line, the backtrace
ComposeReport(err_ctx, thread, location, msg, backtrace) ==
  fmt(err_ctx) \o << <<>> >> \o << ErrorLine(thread, location, msg) >>
    \o << <<Reset, backtrace>> >>

\* the test of the branch with the name misspelt
IsMainName_Misspelt(thread) == thread = "Main"

\* if thread == "main"
IsMainName(thread) == thread = "main"

\* process::exit(1)
EXIT_STATUS == 1

\* ------------------------------------------------------------------------
\* State
\* ------------------------------------------------------------------------
VARIABLES
  ctx,            \* ctx[t]: the ErrorContext value thread t holds (a local)
  OPENCALLS,      \* OPENCALLS[t]: the thread-local slot of thread t
  pc,             \* pc[t]: where thread t is
  info,           \* info[t]: the panic of thread t and its composed report
  chan,           \* AppInstructions sent to the supervisor, not yet received
  receiverAlive,  \* the supervisor's receiving end still exists
  stdout,         \* what has been printed to standard output
  process,        \* the process: running, exited (with a code) or aborted
  hist,           \* hist[t]: the calls add_call was given on ctx[t] since new()
  recorded,       \* recorded[t]: every call add_call was given on thread t
  lastPub,        \* lastPub[t]: the context thread t last published
  sent,           \* sent[t]: the messages thread t's handler sent (send was Ok)
  nrec,           \* new() and add_call calls made so far
  npanic,         \* panics so far
  converted,      \* the conversions made so far: instruction and sub-tag
  spare,          \* spare[t]: the other context value thread t holds, and
                  \* the calls add_call was given on it since new()
  fullOther       \* fullOther[t]: the last add_call of thread t was given a
                  \* full context while the slot held another value

vars == <<ctx, OPENCALLS, pc, info, chan, receiverAlive, stdout, process,
          hist, recorded, lastPub, sent, nrec, npanic, converted, spare,
          fullOther>>

\* no panic yet
NoInfo == [location |-> None, msg |-> None, thread |-> "", report |-> <<>>]

\* every thread starts with a fresh context and a slot holding the default
\* context; nothing has been sent or printed
Init ==
  /\ ctx = [t \in Threads |-> new]
  /\ OPENCALLS = [t \in Threads |-> new]
  /\ pc = [t \in Threads |-> "running"]
  /\ info = [t \in Threads |-> NoInfo]
  /\ chan = <<>>
  /\ receiverAlive = TRUE
  /\ stdout = <<>>
  /\ process = [state |-> "running", code |-> 0]
  /\ hist = [t \in Threads |-> <<>>]
  /\ recorded = [t \in Threads |-> {}]
  /\ lastPub = [t \in Threads |-> new]
  /\ sent = [t \in Threads |-> <<>>]
  /\ nrec = 0
  /\ npanic = 0
  /\ converted = {}
  /\ spare = [t \in Threads |-> [ctx |-> new, hist |-> <<>>]]
  /\ fullOther = [t \in Threads |-> FALSE]

Alive(t) == process.state = "running" /\ pc[t] = "running"

\* ------------------------------------------------------------------------
\* Recording
\* ------------------------------------------------------------------------
\* let mut err_ctx = ErrorContext::new() on thread t.  The context values a
\* thread records on are the ones it made with new() and its own add_call
\* calls.
NewCtx(t) ==
  /\ Alive(t)
  /\ ctx' = [ctx EXCEPT ![t] = new]
  /\ hist' = [hist EXCEPT ![t] = <<>>]
  /\ nrec' = nrec + 1
  /\ UNCHANGED <<OPENCALLS, recorded, lastPub>>
  /\ UNCHANGED <<pc, info, chan, receiverAlive, stdout, process, sent, npanic>>
  /\ UNCHANGED <<converted, spare, fullOther>>

\* every slot of the context is taken
Full(self) == \A i \in 1..MAX_THREAD_CALL_STACK : self.calls[i] # Empty

\* add_call publishing inside the loop, where it writes the slot
AddCall_PublishOnWrite(t, call) ==
  /\ Alive(t)
  /\ ctx' = [ctx EXCEPT ![t] = add_call(ctx[t], call)]
  /\ OPENCALLS' = IF Full(ctx[t]) THEN OPENCALLS
                  ELSE Publish(OPENCALLS, t, ctx'[t])
  /\ hist' = [hist EXCEPT ![t] = Append(@, call)]
  /\ recorded' = [recorded EXCEPT ![t] = @ \cup {call}]
  /\ lastPub' = [lastPub EXCEPT ![t] = ctx'[t]]
  /\ fullOther' = [fullOther EXCEPT ![t] = Full(ctx[t]) /\ OPENCALLS[t] # ctx[t]]
  /\ nrec' = nrec + 1
  /\ UNCHANGED <<pc, info, chan, receiverAlive, stdout, process, sent, npanic>>
  /\ UNCHANGED <<converted, spare>>

\* err_ctx.add_call(call) on thread t
AddCall(t, call) ==
  /\ Alive(t)
  /\ ctx' = [ctx EXCEPT ![t] = add_call(ctx[t], call)]
  /\ OPENCALLS' = Publish(OPENCALLS, t, ctx'[t])
  /\ hist' = [hist EXCEPT ![t] = Append(@, call)]
  /\ recorded' = [recorded EXCEPT ![t] = @ \cup {call}]
  /\ lastPub' = [lastPub EXCEPT ![t] = ctx'[t]]
  /\ fullOther' = [fullOther EXCEPT ![t] = Full(ctx[t]) /\ OPENCALLS[t] # ctx[t]]
  /\ nrec' = nrec + 1
  /\ UNCHANGED <<pc, info, chan, receiverAlive, stdout, process, sent, npanic>>
  /\ UNCHANGED <<converted, spare>>

\* ------------------------------------------------------------------------
\* handle_panic
\* ------------------------------------------------------------------------
\* thread t panics; the hook runs on t up to the composed report
PanicCompose(t, location, msg, backtrace) ==
  /\ Alive(t)
  /\ LET thread == NameOrUnnamed(ThreadName(t))
         err_ctx == OPENCALLS[t]
     IN info' = [info EXCEPT ![t] =
                   [location |-> location, msg |-> msg, thread |-> thread,
                    report |-> ComposeReport(err_ctx, thread, location, msg,
                                             backtrace)]]
  /\ pc' = [pc EXCEPT ![t] = "route"]
  /\ npanic' = npanic + 1
  /\ UNCHANGED <<ctx, OPENCALLS, hist, recorded, lastPub, nrec>>
  /\ UNCHANGED <<chan, receiverAlive, stdout, process, sent>>
  /\ UNCHANGED <<converted, spare, fullOther>>

\* println!("{}", backtrace) on the "main" branch
RoutePrint(t) ==
  /\ process.state = "running"
  /\ pc[t] = "route"
  /\ IsMainName(info[t].thread)
  /\ stdout' = Append(stdout, info[t].report)
  /\ pc' = [pc EXCEPT ![t] = "printed"]
  /\ UNCHANGED <<ctx, OPENCALLS, hist, recorded, lastPub, nrec, npanic>>
  /\ UNCHANGED <<info, chan, receiverAlive, process, sent>>
  /\ UNCHANGED <<converted, spare, fullOther>>

\* process::exit(1) on the "main" branch; it does not return
RouteExit(t) ==
  /\ process.state = "running"
  /\ pc[t] = "printed"
  /\ process' = [state |-> "exited", code |-> EXIT_STATUS]
  /\ pc' = [pc EXCEPT ![t] = "exited"]
  /\ UNCHANGED <<ctx, OPENCALLS, hist, recorded, lastPub, nrec, npanic>>
  /\ UNCHANGED <<info, chan, receiverAlive, stdout, sent>>
  /\ UNCHANGED <<converted, spare, fullOther>>

\* SenderWithContext::send: Ok and the message is queued while the receiving
\* end exists, Err once it is gone; it does not wait for the supervisor
ChannelSend(queue, alive, message) ==
  IF alive THEN [ok |-> TRUE, queue |-> Append(queue, message)]
  ELSE [ok |-> FALSE, queue |-> queue]

\* what .unwrap() makes of the result of the send: the handler returns on
\* Ok and panics on Err
Unwrap(ok) == IF ok THEN "returned" ELSE "hook_panicked"

\* send_app_instructions.send(AppInstruction::Error(backtrace)).unwrap() on
\* the else branch.  A panic raised inside the panic hook makes the runtime
\* abort the process, whose threads then take no further step.
RouteSend(t) ==
  /\ process.state = "running"
  /\ pc[t] = "route"
  /\ ~IsMainName(info[t].thread)
  /\ LET message == [instr |-> "Error", payload |-> info[t].report]
         r == ChannelSend(chan, receiverAlive, message)
         after == Unwrap(r.ok)
     IN /\ chan' = r.queue
        /\ sent' = [sent EXCEPT ![t] = IF r.ok THEN Append(@, message) ELSE @]
        /\ pc' = [pc EXCEPT ![t] = after]
        /\ process' = IF after = "hook_panicked"
                      THEN [state |-> "aborted", code |-> 0]
                      ELSE process
  /\ UNCHANGED <<ctx, OPENCALLS, hist, recorded, lastPub, nrec, npanic>>
  /\ UNCHANGED <<info, receiverAlive, stdout>>
  /\ UNCHANGED <<converted, spare, fullOther>>

\* ------------------------------------------------------------------------
\* The supervisor's end of the channel
\* ------------------------------------------------------------------------
\* the supervisor (the main thread) receives the next instruction
SupervisorRecv ==
  /\ Alive("t_main")
  /\ receiverAlive
  /\ chan # <<>>
  /\ chan' = Tail(chan)
  /\ UNCHANGED <<ctx, OPENCALLS, hist, recorded, lastPub, nrec, npanic>>
  /\ UNCHANGED <<pc, info, receiverAlive, stdout, process, sent>>
  /\ UNCHANGED <<converted, spare, fullOther>>

\* the supervisor drops the receiving end; queued instructions are lost
DropReceiver ==
  /\ process.state = "running"
  /\ receiverAlive
  /\ receiverAlive' = FALSE
  /\ chan' = <<>>
  /\ UNCHANGED <<ctx, OPENCALLS, hist, recorded, lastPub, nrec, npanic>>
  /\ UNCHANGED <<pc, info, stdout, process, sent>>
  /\ UNCHANGED <<converted, spare, fullOther>>

\* ------------------------------------------------------------------------
\* Conversions
\* ------------------------------------------------------------------------
\* ScreenContext::from(&screen_instruction)
ConvertScreen(screen_instruction) ==
  /\ process.state = "running"
  /\ converted' = converted \cup {[sys |-> "Screen", from |-> screen_instruction,
                                     to |-> ScreenContextFrom(screen_instruction)]}
  /\ UNCHANGED <<ctx, OPENCALLS, hist, recorded, lastPub, nrec, npanic>>
  /\ UNCHANGED <<pc, info, chan, receiverAlive, stdout, process, sent, spare,
               fullOther>>

\* PtyContext::from(&pty_instruction)
ConvertPty(pty_instruction) ==
  /\ process.state = "running"
  /\ converted' = converted \cup {[sys |-> "Pty", from |-> pty_instruction,
                                     to |-> PtyContextFrom(pty_instruction)]}
  /\ UNCHANGED <<ctx, OPENCALLS, hist, recorded, lastPub, nrec, npanic>>
  /\ UNCHANGED <<pc, info, chan, receiverAlive, stdout, process, sent, spare,
               fullOther>>

\* PluginContext::from(&plugin_instruction)
ConvertPlugin(plugin_instruction) ==
  /\ process.state = "running"
  /\ converted' = converted \cup {[sys |-> "Plugin", from |-> plugin_instruction,
                                     to |-> PluginContextFrom(plugin_instruction)]}
  /\ UNCHANGED <<ctx, OPENCALLS, hist, recorded, lastPub, nrec, npanic>>
  /\ UNCHANGED <<pc, info, chan, receiverAlive, stdout, process, sent, spare,
               fullOther>>

\* AppContext::from(&app_instruction)
ConvertApp(app_instruction) ==
  /\ process.state = "running"
  /\ converted' = converted \cup {[sys |-> "App", from |-> app_instruction,
                                     to |-> AppContextFrom(app_instruction)]}
  /\ UNCHANGED <<ctx, OPENCALLS, hist, recorded, lastPub, nrec, npanic>>
  /\ UNCHANGED <<pc, info, chan, receiverAlive, stdout, process, sent, spare,
               fullOther>>

\* ------------------------------------------------------------------------
\* A thread holding two context values
\* ------------------------------------------------------------------------
\* ErrorContext is Copy: thread t keeps a second context value and turns
\* from the one it records on to the other (std::mem::swap of the two)
SwapCtx(t) ==
  /\ Alive(t)
  /\ ctx' = [ctx EXCEPT ![t] = spare[t].ctx]
  /\ hist' = [hist EXCEPT ![t] = spare[t].hist]
  /\ spare' = [spare EXCEPT ![t] = [ctx |-> ctx[t], hist |-> hist[t]]]
  /\ UNCHANGED <<OPENCALLS, recorded, lastPub, nrec, npanic, converted>>
  /\ UNCHANGED fullOther
  /\ UNCHANGED <<pc, info, chan, receiverAlive, stdout, process, sent>>

\* ------------------------------------------------------------------------
\* Specifications
\* ------------------------------------------------------------------------
\* the whole program: three threads record, panic and are routed
Next ==
  \/ \E t \in Threads : nrec < MaxRecords /\ NewCtx(t)
  \/ \E t \in Threads, call \in ThreadTags :
        nrec < MaxRecords /\ AddCall(t, call)
  \/ \E t \in Threads, location \in Locations, msg \in Messages,
        backtrace \in Backtraces :
        npanic < MaxPanics /\ PanicCompose(t, location, msg, backtrace)
  \/ \E t \in Threads : RoutePrint(t)
  \/ \E t \in Threads : RouteExit(t)
  \/ \E t \in Threads : RouteSend(t)
  \/ SupervisorRecv
  \/ DropReceiver

Spec == Init /\ [][Next]_vars

\* the scheduler runs a thread that is inside the handler
FairSpec == Spec /\ \A t \in Threads :
  WF_vars(RoutePrint(t)) /\ WF_vars(RouteExit(t)) /\ WF_vars(RouteSend(t))

\* the recorder alone: one thread makes up to MaxCalls add_call calls
Recorder == "t_plugin"

NextCtx ==
  \/ nrec < MaxCalls /\ NewCtx(Recorder)
  \/ \E call \in Tags : nrec < MaxCalls /\ AddCall(Recorder, call)

SpecCtx == Init /\ [][NextCtx]_vars

\* the recorder with two context values: the tags are one thread tag and
\* Empty, so that MaxCalls calls fill one context and go on to the other
TwoTags == {Screen("Render"), Empty}

NextTwo ==
  \/ nrec < MaxCalls /\ NewCtx(Recorder)
  \/ \E call \in TwoTags : nrec < MaxCalls /\ AddCall(Recorder, call)
  \/ SwapCtx(Recorder)

SpecTwo == Init /\ [][NextTwo]_vars

\* the converters alone: up to MaxConversions instructions are converted
NextConv ==
  \/ \E screen_instruction \in ScreenInstruction :
        Cardinality(converted) < MaxConversions /\ ConvertScreen(screen_instruction)
  \/ \E pty_instruction \in PtyInstruction :
        Cardinality(converted) < MaxConversions /\ ConvertPty(pty_instruction)
  \/ \E plugin_instruction \in PluginInstruction :
        Cardinality(converted) < MaxConversions /\ ConvertPlugin(plugin_instruction)
  \/ \E app_instruction \in AppInstruction :
        Cardinality(converted) < MaxConversions /\ ConvertApp(app_instruction)

SpecConv == Init /\ [][NextConv]_vars

\* ------------------------------------------------------------------------
\* Helpers of the properties
\* ------------------------------------------------------------------------
\* the thread's name, as the handler reads it, is "main"
MainNamed(t) == ThreadName(t) = Some("main")

\* thread t's handler has run past its routing step
Routed(t) == pc[t] \notin {"running", "route"}

\* the message the handler of t sends
ErrorMessage(t) == [instr |-> "Error", payload |-> info[t].report]

\* ------------------------------------------------------------------------
\* Routing of a panic
\* ------------------------------------------------------------------------
\* C1: once the handler of a thread not named "main" is past its routing
\* step, it has sent exactly one message, the Error instruction carrying
\* the report of that panic, and it has returned; it has not ended the
\* process.
C1_NonMainSendsOnceAndReturns ==
  \A t \in Threads :
    (~MainNamed(t) /\ Routed(t)) =>
      /\ pc[t] = "returned"
      /\ sent[t] = <<ErrorMessage(t)>>

\* C2: the handler of the thread named "main" prints its report and then
\* exits the process with status 1; it sends nothing and never returns,
\* and no step is taken once the process has exited.
C2_MainPrintsAndExits ==
  /\ [](\A t \in Threads :
          MainNamed(t) =>
            /\ pc[t] \in {"running", "route", "printed", "exited"}
            /\ sent[t] = <<>>
            /\ pc[t] \in {"printed", "exited"} =>
                 \E i \in 1..Len(stdout) : stdout[i] = info[t].report
            /\ pc[t] = "exited" => process = [state |-> "exited", code |-> 1])
  /\ [][/\ process.state # "exited"
        /\ \A t \in Threads :
             MainNamed(t) =>
               /\ (pc[t] = "route" /\ pc'[t] # "route") =>
                    /\ pc'[t] = "printed"
                    /\ stdout' = Append(stdout, info[t].report)
                    /\ chan' = chan
               /\ (pc[t] = "printed" /\ pc'[t] # "printed") =>
                    /\ pc'[t] = "exited"
                    /\ process' = [state |-> "exited", code |-> 1]
                    /\ chan' = chan]_vars

\* the main thread's handler has printed its report and exited the process
C2_Witness ==
  /\ pc["t_main"] = "exited"
  /\ process = [state |-> "exited", code |-> 1]
  /\ stdout = <<info["t_main"].report>>

\* C3: when the send of a handler fails, the handler has returned: it has
\* not panicked and the process goes on.
C3_FailedSendIsSwallowed ==
  \A t \in Threads :
    (~MainNamed(t) /\ Routed(t) /\ sent[t] = <<>>) =>
      /\ pc[t] = "returned"
      /\ process.state # "aborted"

\* C9: a handler that is about to send on the supervisor channel returns,
\* whether or not the supervisor ever receives (unless the main thread's
\* handler exits the process first).
C9_SendingHandlerReturns ==
  \A t \in Threads :
    (~MainNamed(t) /\ pc[t] = "route") ~>
      (pc[t] = "returned" \/ process.state = "exited")

\* ------------------------------------------------------------------------
\* The report of a panic
\* ------------------------------------------------------------------------
\* token tok is one of the pieces of the line
Has(line, tok) == \E i \in 1..Len(line) : line[i] = tok

\* the line holds "file:line" of the location
HasLocation(line, loc) ==
  \E i \in 1..Len(line) :
    /\ i + 2 <= Len(line)
    /\ line[i] = loc.file
    /\ line[i + 1] = ":"
    /\ line[i + 2] = ToString(loc.line)

\* the lines of the report before its first empty line
TrailOf(report) ==
  LET first == CHOOSE i \in 1..Len(report) :
                 report[i] = <<>> /\ \A j \in 1..(i - 1) : report[j] # <<>>
  IN SubSeq(report, 1, first - 1)

\* one of the numbered lines of the trail of the report names the tag
NamesTag(report, tag) ==
  \E i \in 2..Len(TrailOf(report)) :
    LET line == TrailOf(report)[i]
    IN SubSeq(line, 4, Len(line)) = DisplayContextType(tag)

\* C4: the slot of a thread not named "main" holds what that thread last
\* published, whatever the other threads record; the trail of its report
\* is that context, formatted, and names no tag that only another such
\* thread recorded.
C4_TrailsAreThreadLocal ==
  \A a \in Threads :
    ~MainNamed(a) =>
      /\ OPENCALLS[a] = lastPub[a]
      /\ pc[a] # "running" =>
           /\ TrailOf(info[a].report) = fmt(lastPub[a])
           /\ \A b \in Threads \ {a} :
                ~MainNamed(b) =>
                  \A tag \in (recorded[b] \ recorded[a]) \ {Empty} :
                    ~NamesTag(info[a].report, tag)

\* two threads not named "main" recorded different tags and both panicked
C4_Witness ==
  /\ pc["t_plugin"] # "running"
  /\ pc["t_anon"] # "running"
  /\ recorded["t_plugin"] = {Screen("Render")}
  /\ recorded["t_anon"] = {Pty("SpawnTerminal")}
  /\ NamesTag(info["t_plugin"].report, Screen("Render"))
  /\ NamesTag(info["t_anon"].report, Pty("SpawnTerminal"))

\* C10: the report of a panic is the formatted trail of the thread's
\* context, then one line that names the thread and holds the message
\* exactly when there is one and file:line exactly when there is a
\* location, then the stack trace.
C10_ReportLayout ==
  \A t \in Threads :
    pc[t] # "running" =>
      LET r == info[t].report
          trail == fmt(OPENCALLS[t])
          k == Len(trail)
          header == r[Len(r) - 1]
      IN /\ Len(r) = k + 3
         /\ SubSeq(r, 1, k) = trail
         /\ Has(header, "thread '") /\ Has(header, info[t].thread)
         /\ IF info[t].msg # None
            THEN Has(header, info[t].msg[1])
            ELSE \A m \in Messages \ {None} : ~Has(header, m[1])
         /\ IF info[t].location # None
            THEN HasLocation(header, info[t].location[1])
            ELSE \A l \in Locations \ {None} : ~HasLocation(header, l[1])
         /\ \E bt \in Backtraces : Has(r[Len(r)], bt)
         /\ \A i \in 1..k : \A bt \in Backtraces :
              ~Has(r[i], bt) /\ ~Has(r[i], "thread '")

\* one panic with a message and no location, one with a location and no
\* message, the second on a thread that had recorded a call
C10_Witness ==
  /\ pc["t_plugin"] # "running"
  /\ info["t_plugin"].msg # None /\ info["t_plugin"].location = None
  /\ pc["t_anon"] # "running"
  /\ info["t_anon"].msg = None /\ info["t_anon"].location # None
  /\ OPENCALLS["t_anon"] # new

\* ------------------------------------------------------------------------
\* The recorder
\* ------------------------------------------------------------------------
\* no call of the sequence is the Empty sentinel
AllNonEmpty(h) == \A i \in 1..Len(h) : h[i] # Empty

\* the report is the header line and then one line per call of h, numbered
\* from 1 and naming the calls of h in order
ReportLists(report, h) ==
  /\ Len(report) = Len(h) + 1
  /\ report[1] = <<"Originating Thread(s):">>
  /\ \A i \in 1..Len(h) :
       LET line == report[i + 1]
       IN /\ line[2] = ToString(i)
          /\ SubSeq(line, 4, Len(line)) = DisplayContextType(h[i])

\* the calls of a context that are not Empty, in slot order
NonEmptyCalls(c) == SelectSeq(c.calls, LAMBDA x : x # Empty)

IsPrefix(s1, s2) == Len(s1) <= Len(s2) /\ SubSeq(s2, 1, Len(s1)) = s1

\* thread t makes an add_call call in this step
Records(t) == Len(hist'[t]) = Len(hist[t]) + 1

\* C5 as stated: after n <= 6 add_call calls on a fresh context, with any
\* ContextType values, the report is the header and n numbered lines
\* naming the calls in order.
C5_ReportListsAnyCalls ==
  \A t \in Threads :
    Len(hist[t]) <= MAX_THREAD_CALL_STACK =>
      ReportLists(fmt(ctx[t]), hist[t])

\* C5 amended: after n <= 6 add_call calls on a fresh context, none of them
\* with the Empty sentinel, the report is the header and n numbered lines
\* naming the calls in order (the header alone for n = 0).
C5_ReportListsCalls ==
  \A t \in Threads :
    (Len(hist[t]) <= MAX_THREAD_CALL_STACK /\ AllNonEmpty(hist[t])) =>
      ReportLists(fmt(ctx[t]), hist[t])

\* six calls of three different kinds were recorded on a fresh context
C5_Witness ==
  /\ Len(hist[Recorder]) = 6
  /\ AllNonEmpty(hist[Recorder])
  /\ {hist[Recorder][i] : i \in 1..6} = NonEmptyTags
  /\ Len(fmt(ctx[Recorder])) = 7

\* C6 as stated: after more than 6 add_call calls on a fresh context the
\* context holds the first 6 calls in order, and a call from the 7th on
\* leaves the context as it was.
C6_KeepsFirstSixOfAnyCalls ==
  /\ [](\A t \in Threads :
          Len(hist[t]) > MAX_THREAD_CALL_STACK =>
            ctx[t].calls = SubSeq(hist[t], 1, MAX_THREAD_CALL_STACK))
  /\ [][\A t \in Threads :
          (Records(t) /\ Len(hist[t]) >= MAX_THREAD_CALL_STACK) =>
            ctx'[t] = ctx[t]]_vars

\* C6 amended: after more than 6 add_call calls on a fresh context, the
\* first 6 of them not with the Empty sentinel, the context holds the first
\* 6 calls in order, and a call from the 7th on leaves the context as it
\* was.
C6_KeepsFirstSix ==
  /\ [](\A t \in Threads :
          (/\ Len(hist[t]) > MAX_THREAD_CALL_STACK
           /\ AllNonEmpty(SubSeq(hist[t], 1, MAX_THREAD_CALL_STACK))) =>
            ctx[t].calls = SubSeq(hist[t], 1, MAX_THREAD_CALL_STACK))
  /\ [][\A t \in Threads :
          (/\ Records(t)
           /\ Len(hist[t]) >= MAX_THREAD_CALL_STACK
           /\ AllNonEmpty(SubSeq(hist[t], 1, MAX_THREAD_CALL_STACK))) =>
            ctx'[t] = ctx[t]]_vars

\* a 7th and an 8th call, of a kind other than the 6th, were made on a full
\* context
C6_Witness ==
  /\ Len(hist[Recorder]) = 8
  /\ AllNonEmpty(hist[Recorder])
  /\ hist[Recorder][7] # hist[Recorder][6]
  /\ hist[Recorder][8] # hist[Recorder][6]
  /\ ctx[Recorder].calls = SubSeq(hist[Recorder], 1, 6)

\* C7: every context reached from new() by add_call calls with any tags
\* has 6 slots, and no Empty slot comes before a slot that is not Empty.
C7_EmptyOnlyTrails ==
  \A t \in Threads :
    \A c \in {ctx[t], OPENCALLS[t]} :
      /\ Len(c.calls) = 6
      /\ \A i \in 1..6 : \A j \in (i + 1)..6 :
           c.calls[i] = Empty => c.calls[j] = Empty

\* Empty was recorded first, then two calls: two slots taken, four Empty
C7_Witness ==
  /\ Len(hist[Recorder]) = 3
  /\ hist[Recorder][1] = Empty
  /\ ctx[Recorder].calls[2] # Empty
  /\ ctx[Recorder].calls[3] = Empty

\* C8 as stated: whatever context value a thread calls add_call on, the
\* calls its slot held before are a prefix of the calls it holds after.
C8_SlotOnlyGrows ==
  [][\A t \in Threads :
       IsPrefix(NonEmptyCalls(OPENCALLS[t]), NonEmptyCalls(OPENCALLS'[t]))]_vars

\* C8 amended: a thread's slot changes only in an add_call call of that
\* thread, which replaces it by the context value the call was made on:
\* the calls that value held before the call are a prefix of the calls the
\* slot holds after it, with at most one call more.  Calls the slot held
\* from another context value are dropped.
C8_SlotFollowsContext ==
  [][\A t \in Threads :
       /\ OPENCALLS'[t] # OPENCALLS[t] => Records(t)
       /\ Records(t) =>
            /\ IsPrefix(NonEmptyCalls(ctx[t]), NonEmptyCalls(OPENCALLS'[t]))
            /\ Len(NonEmptyCalls(OPENCALLS'[t])) <= Len(NonEmptyCalls(ctx[t])) + 1]_vars

\* after two calls on one context the thread recorded on a new one: its
\* slot holds the one call of the new context
C8_Witness ==
  /\ nrec = 4
  /\ hist[Recorder] = <<Pty("SpawnTerminal")>>
  /\ recorded[Recorder] = {Screen("Render"), Pty("SpawnTerminal")}
  /\ NonEmptyCalls(OPENCALLS[Recorder]) = <<Pty("SpawnTerminal")>>

\* ------------------------------------------------------------------------
\* The order of the pieces of a printed report
\* ------------------------------------------------------------------------
\* the pieces of all lines of a report, in the order they are written
RECURSIVE Flatten(_)
Flatten(report) ==
  IF report = <<>> THEN <<>> ELSE Head(report) \o Flatten(Tail(report))

\* where the piece first occurs in the text, 0 if it does not
FirstPos(text, tok) ==
  IF \E i \in 1..Len(text) : text[i] = tok
  THEN CHOOSE i \in 1..Len(text) :
         text[i] = tok /\ \A j \in 1..(i - 1) : text[j] # tok
  ELSE 0

\* where "thread '<name>" first occurs in the text, 0 if it does not
ThreadPos(text, name) ==
  IF \E i \in 1..(Len(text) - 1) : text[i] = "thread '" /\ text[i + 1] = name
  THEN CHOOSE i \in 1..(Len(text) - 1) :
         /\ text[i] = "thread '" /\ text[i + 1] = name
         /\ \A j \in 1..(i - 1) : ~(text[j] = "thread '" /\ text[j + 1] = name)
  ELSE 0

\* where "<file>:<line>" first occurs in the text, 0 if it does not
LocationPos(text, file, line) ==
  IF \E i \in 1..(Len(text) - 2) :
       text[i] = file /\ text[i + 1] = ":" /\ text[i + 2] = line
  THEN CHOOSE i \in 1..(Len(text) - 2) :
         /\ text[i] = file /\ text[i + 1] = ":" /\ text[i + 2] = line
         /\ \A j \in 1..(i - 1) :
              ~(text[j] = file /\ text[j + 1] = ":" /\ text[j + 2] = line)
  ELSE 0

\* the main thread recorded Screen/Render then Pty/SpawnTerminal, panicked
\* with message "boom" at x.src:42, and its handler has printed
BoomOnMain ==
  /\ pc["t_main"] \in {"printed", "exited"}
  /\ info["t_main"].msg = Some("boom")
  /\ info["t_main"].location = Some([file |-> "x.src", line |-> 42])
  /\ NonEmptyCalls(OPENCALLS["t_main"]) = <<Screen("Render"), Pty("SpawnTerminal")>>

\* what the main thread's handler printed, as one text
Printed == Flatten(stdout[Len(stdout)])

\* C11 as stated: the printed report holds "thread 'main'", "boom",
\* "x.src:42", "screen_thread", "pty_thread", in that order.
C11_NameMessageLocationThenTrail ==
  BoomOnMain =>
    /\ 0 < ThreadPos(Printed, "main")
    /\ ThreadPos(Printed, "main") < FirstPos(Printed, "boom")
    /\ FirstPos(Printed, "boom") < LocationPos(Printed, "x.src", "42")
    /\ LocationPos(Printed, "x.src", "42") < FirstPos(Printed, "screen_thread: ")
    /\ FirstPos(Printed, "screen_thread: ") < FirstPos(Printed, "pty_thread: ")

\* C11 amended: the printed report holds "screen_thread", "pty_thread",
\* "thread 'main'", "boom", "x.src:42", in that order: the two entries of
\* the trail come first, then the thread name, the message, the location.
C11_TrailThenNameMessageLocation ==
  BoomOnMain =>
    /\ 0 < FirstPos(Printed, "screen_thread: ")
    /\ FirstPos(Printed, "screen_thread: ") < FirstPos(Printed, "pty_thread: ")
    /\ FirstPos(Printed, "pty_thread: ") < ThreadPos(Printed, "main")
    /\ ThreadPos(Printed, "main") < FirstPos(Printed, "boom")
    /\ FirstPos(Printed, "boom") < LocationPos(Printed, "x.src", "42")

\* the report of that panic has been printed and the process has exited
C11_Witness ==
  /\ BoomOnMain
  /\ pc["t_main"] = "exited"
  /\ stdout = <<info["t_main"].report>>

\* ------------------------------------------------------------------------
\* The conversions
\* ------------------------------------------------------------------------
Subsystems == {"Screen", "Pty", "Plugin", "App"}

\* the instructions and the sub-tags of a subsystem
InstructionsOf(sys) ==
  CASE sys = "Screen" -> ScreenInstruction
    [] sys = "Pty" -> PtyInstruction
    [] sys = "Plugin" -> PluginInstruction
    [] sys = "App" -> AppInstruction

SubTagsOf(sys) ==
  CASE sys = "Screen" -> ScreenContext
    [] sys = "Pty" -> PtyContext
    [] sys = "Plugin" -> PluginContext
    [] sys = "App" -> AppContext

\* the variants of a subsystem, and the sub-tags its converter gives them
VariantsOf(sys) == {i.variant : i \in InstructionsOf(sys)}

ImageOf(sys) ==
  CASE sys = "Screen" -> {ScreenContextFrom(i) : i \in ScreenInstruction}
    [] sys = "Pty" -> {PtyContextFrom(i) : i \in PtyInstruction}
    [] sys = "Plugin" -> {PluginContextFrom(i) : i \in PluginInstruction}
    [] sys = "App" -> {AppContextFrom(i) : i \in AppInstruction}

\* every conversion made gave a sub-tag of the instruction's subsystem; a
\* variant always got the same sub-tag, whatever it carried; two variants of
\* a subsystem never got the same sub-tag; every sub-tag is what some variant
\* is mapped to, and there are as many sub-tags as variants, so it is what
\* exactly one variant is mapped to
TotalAndOneToOne ==
  /\ \A e \in converted : e.to \in SubTagsOf(e.sys)
  /\ \A e, f \in converted :
       (e.sys = f.sys /\ e.from.variant = f.from.variant) => e.to = f.to
  /\ \A e, f \in converted :
       (e.sys = f.sys /\ e.from.variant # f.from.variant) => e.to # f.to
  /\ \A sys \in Subsystems :
       /\ ImageOf(sys) = SubTagsOf(sys)
       /\ Cardinality(VariantsOf(sys)) = Cardinality(SubTagsOf(sys))

\* C12 as stated: each of the four conversions gives every instruction
\* variant exactly one sub-tag whatever the variant carries, that sub-tag
\* has the variant's name, two variants never get the same sub-tag, and
\* every sub-tag is what exactly one variant is mapped to.
C12_EveryVariantKeepsItsName ==
  /\ TotalAndOneToOne
  /\ \A e \in converted : e.to = e.from.variant

\* the name of the sub-tag of a variant: the variant's own name, but
\* HandlePtyEvent for ScreenInstruction::Pty
SubTagName(sys, v) ==
  IF sys = "Screen" /\ v = "Pty" THEN "HandlePtyEvent" ELSE v

\* C12 amended: each of the four conversions gives every instruction
\* variant exactly one sub-tag whatever the variant carries; that sub-tag
\* has the variant's name, except that ScreenInstruction::Pty gets
\* HandlePtyEvent; two variants never get the same sub-tag, and every
\* sub-tag is what exactly one variant is mapped to.
C12_OneSubTagPerVariant ==
  /\ TotalAndOneToOne
  /\ \A e \in converted : e.to = SubTagName(e.sys, e.from.variant)

\* ScreenInstruction::Pty was converted twice, carrying different things
C12_Witness ==
  \E e, f \in converted :
    /\ e.sys = "Screen" /\ e.from.variant = "Pty"
    /\ f.sys = "Screen" /\ f.from.variant = "Pty"
    /\ e.from.payload # f.from.payload
    /\ e.to = "HandlePtyEvent" /\ f.to = "HandlePtyEvent"

\* ------------------------------------------------------------------------
\* The slot after add_call, with two context values
\* ------------------------------------------------------------------------
\* the step is an add_call of thread t (new() empties hist[t]; turning to
\* the other context leaves the count of calls as it is)
RecordsOn(t) ==
  /\ nrec' = nrec + 1
  /\ Len(hist'[t]) = Len(hist[t]) + 1

\* C13: after every add_call made by a thread on a context value, the
\* thread's slot is the whole value of that context after the call; also
\* when the context was full and nothing was written, and whatever the slot
\* held before.
C13_SlotIsContextAfterCall ==
  [][\A t \in Threads : RecordsOn(t) => OPENCALLS'[t] = ctx'[t]]_vars

\* the last add_call was given a full context while the slot held the
\* thread's other context; it wrote nothing and the slot is now the full one
C13_Witness ==
  /\ fullOther[Recorder]
  /\ Full(ctx[Recorder])
  /\ Len(hist[Recorder]) = MAX_THREAD_CALL_STACK + 1
  /\ spare[Recorder].hist # <<>>
  /\ spare[Recorder].ctx # ctx[Recorder]
  /\ OPENCALLS[Recorder] = ctx[Recorder]

\* ------------------------------------------------------------------------
\* Recording Empty
\* ------------------------------------------------------------------------
\* the context that the calls of h give, made one after the other on new()
RECURSIVE Replay(_)
Replay(h) ==
  IF h = <<>> THEN new
  ELSE add_call(Replay(SubSeq(h, 1, Len(h) - 1)), h[Len(h)])

\* the calls of h that are not Empty
WithoutEmpty(h) == SelectSeq(h, LAMBDA x : x # Empty)

\* C14: an add_call of Empty leaves the six slots of the context as they
\* were, and the context and its report after any calls are the ones the
\* same calls give with the Empty ones left out.
C14_EmptyLeavesNoTrace ==
  [][\A t \in Threads :
       /\ (Records(t) /\ hist'[t][Len(hist'[t])] = Empty) => ctx'[t] = ctx[t]
       /\ ctx'[t] = Replay(WithoutEmpty(hist'[t]))
       /\ fmt(ctx'[t]) = fmt(Replay(WithoutEmpty(hist'[t])))]_vars

\* Empty was recorded between two other calls, and on the fresh context
C14_Witness ==
  /\ hist[Recorder] = <<Empty, Screen("Render"), Empty, Pty("SpawnTerminal")>>
  /\ NonEmptyCalls(ctx[Recorder]) = <<Screen("Render"), Pty("SpawnTerminal")>>
  /\ Len(fmt(ctx[Recorder])) = 3

\* ------------------------------------------------------------------------
\* Routing by the thread's name
\* ------------------------------------------------------------------------
\* the handler of thread t has ended the process: by exit on the "main"
\* branch, or by panicking itself on the other branch
EndedProcess(t) == pc[t] \in {"exited", "hook_panicked"}

\* the handler of thread t has run to its end
Finished(t) == pc[t] \in {"exited", "returned", "hook_panicked"}

\* C15: what the handler does depends on the thread's name alone: it ends
\* the process exactly when the name is "main"; a thread without a name is
\* reported as "unnamed", its report goes to the supervisor channel and its
\* handler never ends the process.
C15_RoutedByNameAlone ==
  \A t \in Threads :
    /\ Finished(t) => (EndedProcess(t) <=> MainNamed(t))
    /\ (ThreadName(t) = None /\ pc[t] # "running") =>
         /\ info[t].thread = "unnamed"
         /\ Routed(t) => (pc[t] = "returned" /\ sent[t] = <<ErrorMessage(t)>>)

====
